---- MODULE Spec2Model ----
(***************************************************************************)
(* A model of investment-notice: the calendar classifiers and the          *)
(* next-execution-time computation of src/scheduler.rs, the scheduler      *)
(* loop, and the period analyzers and the indicators of src/analyzer.rs.   *)
(*                                                                         *)
(* An instant (chrono DateTime<Utc>) is a number of ticks since            *)
(* 00:00:00 UTC on 1 January of EpochYear; a second has SubPerSec ticks,    *)
(* so an instant carries a sub-second part as chrono's instants do.        *)
(***************************************************************************)
EXTENDS Integers, Sequences, FiniteSets, TLC

VARIABLES clock, call, pc, mode, now, next_execution, wait_duration,
          wake_at, fired, invoked_at, input, period, outcome,
          args, frames, at, fetched, steps, exit_code

vars == <<clock, call, pc, mode, now, next_execution, wait_duration,
          wake_at, fired, invoked_at, input, period, outcome,
          args, frames, at, fetched, steps, exit_code>>

schedVars == <<pc, mode, now, next_execution, wait_duration, wake_at, fired,
               invoked_at>>
analyzerVars == <<input, period, outcome>>
runVars == <<args, frames, at, fetched, steps, exit_code>>

----------------------------------------------------------------------------
(* Bounds of the model.                                                    *)

\* ticks per second: the sub-second resolution of an instant
SubPerSec == 2
\* the model's calendar starts at 00:00:00 UTC on 1 January of this year
EpochYear == 2023
\* first and last day (counted from the epoch day) the inputs are drawn from
\* (with EpochYear = 2023: 2023-12-20 .. 2025-03-05)
FirstDay == 353
LastDay == 794

SecsPerDay == 86400
TicksPerDay == SecsPerDay * SubPerSec
TicksPerHour == 3600 * SubPerSec
TicksPerMinute == 60 * SubPerSec

\* Option::None of a with_* call, and the value of a call that panicked
None == -1

\* the state of the command-line run before the process is started
NotRunning ==
    /\ args = [mode |-> "", send_email |-> FALSE]
    /\ frames = <<>> /\ at = "none" /\ fetched = <<>> /\ steps = <<>>
    /\ exit_code = None

----------------------------------------------------------------------------
(* chrono's calendar: Datelike and Timelike of DateTime<Utc>.              *)

IsLeap(y) == (y % 4 = 0) /\ ((y % 100 # 0) \/ (y % 400 = 0))

DaysInYear(y) == IF IsLeap(y) THEN 366 ELSE 365

DaysInMonth(y, m) ==
    IF m = 2 THEN (IF IsLeap(y) THEN 29 ELSE 28)
    ELSE IF m \in {4, 6, 9, 11} THEN 30 ELSE 31

RECURSIVE DaysBeforeYearRec(_)
DaysBeforeYearRec(y) ==
    IF y <= EpochYear THEN 0 ELSE DaysBeforeYearRec(y - 1) + DaysInYear(y - 1)

RECURSIVE DaysBeforeMonthRec(_, _)
DaysBeforeMonthRec(y, m) ==
    IF m <= 1 THEN 0 ELSE DaysBeforeMonthRec(y, m - 1) + DaysInMonth(y, m - 1)

\* the years the model's calendar covers
CalendarYears == EpochYear..(EpochYear + 1 + (LastDay \div 365))

\* the day number (counted from the epoch day) of the first day of each month
MonthStart ==
    [y \in CalendarYears |->
        [m \in 1..12 |-> DaysBeforeYearRec(y) + DaysBeforeMonthRec(y, m)]]

\* the day number (counted from the epoch day) of the calendar date y-m-d
DayNumber(y, m, d) == MonthStart[y][m] + (d - 1)

CalendarDays == 0..(MonthStart[EpochYear + 1 + (LastDay \div 365)][12] + 30)

\* the calendar date of each day number
CivilDate ==
    [dn \in CalendarDays |->
        LET y == CHOOSE yy \in CalendarYears :
                    /\ MonthStart[yy][1] <= dn
                    /\ dn < MonthStart[yy][1] + DaysInYear(yy)
            m == CHOOSE mm \in 1..12 :
                    /\ MonthStart[y][mm] <= dn
                    /\ dn < MonthStart[y][mm] + DaysInMonth(y, mm)
        IN  [y |-> y, m |-> m, d |-> dn - MonthStart[y][m] + 1]]

DayOf(t) == t \div TicksPerDay
TickOfDay(t) == t % TicksPerDay

year(t) == CivilDate[DayOf(t)].y
month(t) == CivilDate[DayOf(t)].m
day(t) == CivilDate[DayOf(t)].d
hour(t) == TickOfDay(t) \div TicksPerHour
minute(t) == (TickOfDay(t) % TicksPerHour) \div TicksPerMinute
second(t) == (TickOfDay(t) % TicksPerMinute) \div SubPerSec
\* the sub-second part (chrono: nanosecond), in ticks
subsec(t) == t % SubPerSec

\* days from 0001-01-01 (a Monday in the proleptic Gregorian calendar) to
\* 1 January of year y
DaysFromCE(y) ==
    365 * (y - 1) + ((y - 1) \div 4) - ((y - 1) \div 100) + ((y - 1) \div 400)

\* Datelike::weekday, Monday = 0 .. Sunday = 6
weekday(t) == (DaysFromCE(EpochYear) + DayOf(t)) % 7
Sat == 5
Sun == 6
Fri == 4

\* an instant from its fields
MakeInstant(y, m, d, hh, mm, ss, sub) ==
    DayNumber(y, m, d) * TicksPerDay + hh * TicksPerHour + mm * TicksPerMinute
        + ss * SubPerSec + sub

\* Datelike::with_year / with_month / with_day: None when the date does not exist;
\* every other field, the sub-second part included, is kept
with_year(t, y) ==
    IF t = None THEN None
    ELSE IF day(t) > DaysInMonth(y, month(t)) THEN None
    ELSE DayNumber(y, month(t), day(t)) * TicksPerDay + TickOfDay(t)

with_month(t, m) ==
    IF t = None THEN None
    ELSE IF day(t) > DaysInMonth(year(t), m) THEN None
    ELSE DayNumber(year(t), m, day(t)) * TicksPerDay + TickOfDay(t)

with_day(t, d) ==
    IF t = None THEN None
    ELSE IF d > DaysInMonth(year(t), month(t)) THEN None
    ELSE DayNumber(year(t), month(t), d) * TicksPerDay + TickOfDay(t)

\* Timelike::with_hour / with_minute / with_second: only the named field changes;
\* with_second keeps the sub-second part
with_hour(t, hh) ==
    IF t = None THEN None ELSE t - hour(t) * TicksPerHour + hh * TicksPerHour

with_minute(t, mm) ==
    IF t = None THEN None ELSE t - minute(t) * TicksPerMinute + mm * TicksPerMinute

with_second(t, ss) ==
    IF t = None THEN None ELSE t - second(t) * SubPerSec + ss * SubPerSec

\* chrono::Duration::days(n)
Days(n) == n * TicksPerDay

\* chrono::Duration::num_days: whole days, truncated toward zero
num_days(dur) ==
    IF dur >= 0 THEN dur \div TicksPerDay ELSE -((-dur) \div TicksPerDay)

----------------------------------------------------------------------------
(* src/scheduler.rs: the calendar classifiers.  Utc::now(), which          *)
(* is_last_workday_of_month reads, is the parameter utc_now.               *)

\* Sunday alone taken as the weekend
is_workday_but_sunday(date) == weekday(date) # Sun

is_workday(date) == ~(weekday(date) \in {Sat, Sun})

is_friday(date) == weekday(date) = Fri

next_month(date) == IF month(date) = 12 THEN 1 ELSE month(date) + 1

next_year(date) == IF month(date) = 12 THEN year(date) + 1 ELSE year(date)

\* Utc::now().with_year(..).unwrap() ... .with_second(0).unwrap(); None when one
\* of the unwraps panics.  The sub-second part of Utc::now() is never cleared.
next_month_first(date, utc_now) ==
    with_second(
      with_minute(
        with_hour(
          with_day(
            with_month(with_year(utc_now, next_year(date)), next_month(date)),
            1),
          0),
        0),
      0)

days_until_next_month(date, utc_now) ==
    num_days(next_month_first(date, utc_now) - date)

\* whether the call panics (an unwrap of None)
is_last_workday_of_month_panics(date, utc_now) ==
    next_month_first(date, utc_now) = None

\* the value the call returns when it does not panic
is_last_workday_of_month(date, utc_now) ==
    /\ days_until_next_month(date, utc_now) \in 1..3
    /\ is_workday(date)

----------------------------------------------------------------------------
(* src/scheduler.rs: get_next_execution_time.                              *)

target_hour == 20
target_minute == 0

\* current_time.with_hour(20).unwrap().with_minute(0).unwrap().with_second(0).unwrap()
at_target(t) == with_second(with_minute(with_hour(t, target_hour), target_minute), 0)

RECURSIVE skip_weekend(_)
skip_weekend(next_time) ==
    IF ~is_workday(next_time) THEN skip_weekend(next_time + Days(1)) ELSE next_time

\* today's target kept even when it has passed
next_daily_today(current_time) == skip_weekend(at_target(current_time))

next_daily(current_time) ==
    LET next_time == at_target(current_time)
    IN  skip_weekend(IF next_time <= current_time THEN next_time + Days(1) ELSE next_time)

RECURSIVE find_friday(_, _)
find_friday(next_time, current_time) ==
    IF weekday(next_time) # Fri \/ next_time <= current_time
    THEN find_friday(next_time + Days(1), current_time)
    ELSE next_time

next_weekly(current_time) == find_friday(at_target(current_time), current_time)

\* the while loop of the monthly arm; None when is_last_workday_of_month panics
RECURSIVE find_last_workday(_, _)
find_last_workday(check_date, utc_now) ==
    IF is_last_workday_of_month_panics(check_date, utc_now) THEN None
    ELSE IF ~is_last_workday_of_month(check_date, utc_now)
         THEN find_last_workday(check_date + Days(1), utc_now)
         ELSE check_date

next_monthly(current_time, utc_now) ==
    at_target(find_last_workday(at_target(current_time) + Days(1), utc_now))

\* the three modes, and strings that are none of them
Modes == {"daily", "weekly", "monthly", "hourly", "Daily", ""}

\* an unrecognised mode treated as "weekly"
get_next_execution_time_or_weekly(m, current_time, utc_now) ==
    CASE m = "daily" -> next_daily(current_time)
      [] m = "monthly" -> next_monthly(current_time, utc_now)
      [] OTHER -> next_weekly(current_time)

\* the instant returned, or None when the call panics
get_next_execution_time(m, current_time, utc_now) ==
    CASE m = "daily" -> next_daily(current_time)
      [] m = "weekly" -> next_weekly(current_time)
      [] m = "monthly" -> next_monthly(current_time, utc_now)
      [] OTHER -> next_daily(current_time)

----------------------------------------------------------------------------
(* The inputs the calls are made with.                                     *)

\* times of day, in seconds: 00:00:00, 10:00:00, 19:59:59, 20:00:00, 21:00:00
TimesOfDay == {0, 36000, 71999, 72000, 75600}

Instants ==
    { d * TicksPerDay + s * SubPerSec + u :
        d \in FirstDay..LastDay, s \in TimesOfDay, u \in 0..(SubPerSec - 1) }

\* the wall-clock readings: noon (plus a sub-second part) on the 15th, 29th and
\* 31st of January and on the 15th and the last day of February of the year
\* after EpochYear
WallClocks ==
    { d * TicksPerDay + 12 * TicksPerHour + u :
        d \in { x \in FirstDay..LastDay :
                  /\ year(x * TicksPerDay) = EpochYear + 1
                  /\ month(x * TicksPerDay) \in {1, 2}
                  /\ day(x * TicksPerDay) \in {15, 29, 31} },
        u \in 0..(SubPerSec - 1) }

\* a call not made yet: its argument is chosen, its result is not there
NoCall(date) == [op |-> "none", mode |-> "", arg |-> date, panicked |-> FALSE,
                 b |-> FALSE, t |-> 0]

----------------------------------------------------------------------------
(* The calendar specification: at any wall-clock reading, one of the       *)
(* public functions of src/scheduler.rs is called with any instant.        *)

CalInit ==
    /\ clock \in WallClocks
    /\ \E date \in Instants : call = NoCall(date)
    /\ pc = "idle" /\ mode = "" /\ now = 0 /\ next_execution = 0
    /\ wait_duration = 0 /\ wake_at = 0 /\ fired = 0 /\ invoked_at = 0
    /\ input = <<>> /\ period = 0 /\ outcome = [tag |-> "none"]
    /\ NotRunning

CallIsWorkday ==
    /\ call.op = "none"
    /\ call' = [call EXCEPT !.op = "is_workday", !.b = is_workday(call.arg)]
    /\ UNCHANGED <<clock, schedVars, analyzerVars, runVars>>

CallIsFriday ==
    /\ call.op = "none"
    /\ call' = [call EXCEPT !.op = "is_friday", !.b = is_friday(call.arg)]
    /\ UNCHANGED <<clock, schedVars, analyzerVars, runVars>>

CallIsLastWorkdayOfMonth ==
    /\ call.op = "none"
    /\ call' = [call EXCEPT
                  !.op = "is_last_workday_of_month",
                  !.panicked = is_last_workday_of_month_panics(call.arg, clock),
                  !.b = IF is_last_workday_of_month_panics(call.arg, clock)
                        THEN FALSE
                        ELSE is_last_workday_of_month(call.arg, clock)]
    /\ UNCHANGED <<clock, schedVars, analyzerVars, runVars>>

CallGetNextExecutionTime ==
    /\ call.op = "none"
    /\ \E m \in Modes :
         LET r == get_next_execution_time(m, call.arg, clock)
         IN  call' = [call EXCEPT !.op = "get_next_execution_time", !.mode = m,
                                  !.panicked = (r = None), !.t = r]
    /\ UNCHANGED <<clock, schedVars, analyzerVars, runVars>>

CalNext ==
    \/ CallIsWorkday
    \/ CallIsFriday
    \/ CallIsLastWorkdayOfMonth
    \/ CallGetNextExecutionTime

SpecCal == CalInit /\ [][CalNext]_vars

----------------------------------------------------------------------------
(* src/scheduler.rs: start_scheduler.  One action per step of the loop     *)
(* body; pc is the position of the loop, clock the wall clock.             *)

FallbackSecs == 60
CooldownSecs == 5

\* the subtraction reversed: the fallback is taken for every future instant
to_wait_duration_reversed(next, now_) ==
    IF now_ - next >= 0 THEN now_ - next ELSE FallbackSecs * SubPerSec

\* (next_execution - now).to_std().unwrap_or(Duration::from_secs(60)):
\* to_std fails on a negative duration only
to_wait_duration(next, now_) ==
    IF next - now_ >= 0 THEN next - now_ ELSE FallbackSecs * SubPerSec

\* how late a tokio sleep may end, in ticks: a sleep never ends early
Lateness == {0, 1}

\* how long the awaited handler may run: no time, a second, 26 hours
ActionDurations == {0, SubPerSec, 26 * TicksPerHour}

\* the instants the scheduler is started at: 10:00:00 and 20:00:00.5 on FirstDay
StartClocks ==
    { FirstDay * TicksPerDay + 10 * TicksPerHour,
      FirstDay * TicksPerDay + 20 * TicksPerHour + 1 }

\* the loop is followed while the wall clock is before LastDay
Horizon == LastDay * TicksPerDay

SchedInit ==
    /\ clock \in StartClocks
    /\ mode \in Modes
    /\ pc = "compute"
    /\ now = 0 /\ next_execution = 0 /\ wait_duration = 0 /\ wake_at = 0
    /\ fired = 0 /\ invoked_at = 0
    /\ call = NoCall(0)
    /\ input = <<>> /\ period = 0 /\ outcome = [tag |-> "none"]
    /\ NotRunning

\* lines 141-152: read the clock, compute the next execution and the wait;
\* a panic of get_next_execution_time ends the task
ComputeNext ==
    /\ pc = "compute"
    /\ clock < Horizon
    /\ LET r == get_next_execution_time(mode, clock, clock)
       IN  IF r = None
           THEN /\ pc' = "panicked"
                /\ now' = clock
                /\ UNCHANGED <<next_execution, wait_duration, wake_at, fired,
                               invoked_at>>
           ELSE /\ pc' = "sleep"
                /\ now' = clock
                /\ next_execution' = r
                /\ wait_duration' = to_wait_duration(r, clock)
                /\ wake_at' = clock + to_wait_duration(r, clock)
                /\ fired' = 0
                /\ invoked_at' = 0
    /\ UNCHANGED <<clock, mode, call, analyzerVars, runVars>>

\* line 154: time::sleep(wait_duration).await
Sleep ==
    /\ pc = "sleep"
    /\ \E late \in Lateness : clock' = wake_at + late
    /\ pc' = "invoke"
    /\ UNCHANGED <<mode, now, next_execution, wait_duration, wake_at, fired,
                   invoked_at, call, analyzerVars, runVars>>

\* line 157: handler().await
Invoke ==
    /\ pc = "invoke"
    /\ fired' = fired + 1
    /\ invoked_at' = clock
    /\ \E d \in ActionDurations : clock' = clock + d
    /\ pc' = "cooldown"
    /\ UNCHANGED <<mode, now, next_execution, wait_duration, wake_at, call,
                   analyzerVars, runVars>>

\* line 160: time::sleep(Duration::from_secs(5)).await, then the loop repeats
Cooldown ==
    /\ pc = "cooldown"
    /\ \E late \in Lateness : clock' = clock + CooldownSecs * SubPerSec + late
    /\ pc' = "compute"
    /\ UNCHANGED <<mode, now, next_execution, wait_duration, wake_at, fired,
                   invoked_at, call, analyzerVars, runVars>>

SchedNext ==
    \/ ComputeNext
    \/ Sleep
    \/ Invoke
    \/ Cooldown

SpecSched == SchedInit /\ [][SchedNext]_vars

----------------------------------------------------------------------------
(* f64 and u64 of src/models.rs.                                           *)
(*                                                                         *)
(* An f64 is a record.  A finite value is s * m * 2^e: s the sign (0 for   *)
(* zero), m the significand, an odd natural number of at most 53 bits held *)
(* as its 15-bit limbs, least significant first, and e the exponent.  The  *)
(* others are +inf, -inf and NaN.  Every operation rounds its exact result *)
(* to the nearest such value, ties to even, as IEEE 754 binary64 does.     *)
(* Zero has no sign and the exponent has no range: the values of the model *)
(* stay far from the largest and the smallest f64.  A u64 is its four      *)
(* 16-bit limbs, most significant first, so that a sum keeps its width.    *)

Abs(x) == IF x < 0 THEN -x ELSE x
Sign(x) == IF x < 0 THEN -1 ELSE IF x > 0 THEN 1 ELSE 0
Max(x, y) == IF x >= y THEN x ELSE y
Min(x, y) == IF x <= y THEN x ELSE y

\* bits of the significand of an f64
MantissaBits == 53
\* bits of a limb of a natural number
BigBits == 15
BigBase == 2 ^ BigBits

Limb(x, i) == IF i <= Len(x) THEN x[i] ELSE 0

RECURSIVE BNorm(_)
BNorm(x) ==
    IF x = <<>> THEN <<>>
    ELSE IF x[Len(x)] = 0 THEN BNorm(SubSeq(x, 1, Len(x) - 1)) ELSE x

RECURSIVE BFromInt(_)
BFromInt(n) == IF n = 0 THEN <<>> ELSE <<n % BigBase>> \o BFromInt(n \div BigBase)

RECURSIVE BAddRec(_, _, _, _)
BAddRec(x, y, i, c) ==
    IF i > Max(Len(x), Len(y)) THEN (IF c = 0 THEN <<>> ELSE <<c>>)
    ELSE LET t == Limb(x, i) + Limb(y, i) + c
         IN  <<t % BigBase>> \o BAddRec(x, y, i + 1, t \div BigBase)

BAdd(x, y) == BAddRec(x, y, 1, 0)

RECURSIVE BSubRec(_, _, _, _)
BSubRec(x, y, i, borrow) ==
    IF i > Len(x) THEN <<>>
    ELSE LET t == x[i] - Limb(y, i) - borrow
         IN  <<t % BigBase>> \o BSubRec(x, y, i + 1, IF t < 0 THEN 1 ELSE 0)

\* x - y for x >= y
BSub(x, y) == BNorm(BSubRec(x, y, 1, 0))

RECURSIVE BCmpRec(_, _, _)
BCmpRec(x, y, i) ==
    IF i = 0 THEN 0
    ELSE IF x[i] # y[i] THEN (IF x[i] < y[i] THEN -1 ELSE 1)
    ELSE BCmpRec(x, y, i - 1)

\* -1, 0 or 1 as x < y, x = y or x > y
BCmp(x, y) ==
    IF Len(x) # Len(y) THEN (IF Len(x) < Len(y) THEN -1 ELSE 1)
    ELSE BCmpRec(x, y, Len(x))

RECURSIVE BMulSmallRec(_, _, _, _)
BMulSmallRec(x, k, i, c) ==
    IF i > Len(x) THEN (IF c = 0 THEN <<>> ELSE <<c>>)
    ELSE LET t == x[i] * k + c
         IN  <<t % BigBase>> \o BMulSmallRec(x, k, i + 1, t \div BigBase)

\* x * k for 0 <= k <= BigBase
BMulSmall(x, k) == IF k = 0 THEN <<>> ELSE BMulSmallRec(x, k, 1, 0)

RECURSIVE BMulRec(_, _, _)
BMulRec(x, y, j) ==
    IF j > Len(y) THEN <<>>
    ELSE BAdd(BMulSmall(x, y[j]), <<0>> \o BMulRec(x, y, j + 1))

BMul(x, y) == BNorm(BMulRec(x, y, 1))

RECURSIVE BDivSmallRec(_, _, _)
BDivSmallRec(x, k, i) ==
    IF i > Len(x) THEN [q |-> <<>>, r |-> 0]
    ELSE LET h == BDivSmallRec(x, k, i + 1)
             cur == h.r * BigBase + x[i]
         IN  [q |-> <<cur \div k>> \o h.q, r |-> cur % k]

\* quotient and remainder of x by k, 0 < k <= BigBase
BDivSmall(x, k) ==
    LET d == BDivSmallRec(x, k, 1) IN [q |-> BNorm(d.q), r |-> d.r]

RECURSIVE BitLenInt(_)
BitLenInt(n) == IF n = 0 THEN 0 ELSE 1 + BitLenInt(n \div 2)

BitLen(x) == IF x = <<>> THEN 0 ELSE BigBits * (Len(x) - 1) + BitLenInt(x[Len(x)])

Zeros(n) == [i \in 1..n |-> 0]

\* x * 2^n
BShl(x, n) ==
    IF x = <<>> THEN <<>>
    ELSE Zeros(n \div BigBits) \o BMulSmall(x, 2 ^ (n % BigBits))

\* x \div 2^n, and whether a one bit was shifted out
BShr(x, n) ==
    LET w == Min(n \div BigBits, Len(x))
        d == BDivSmall(SubSeq(x, w + 1, Len(x)), 2 ^ (n % BigBits))
    IN  [q |-> d.q, nz |-> d.r # 0 \/ \E i \in 1..w : x[i] # 0]

IsOdd(x) == x # <<>> /\ x[1] % 2 = 1

NaN == [k |-> "nan", s |-> 0, m |-> <<>>, e |-> 0]
INFINITY == [k |-> "inf", s |-> 1, m |-> <<>>, e |-> 0]
NEG_INFINITY == [k |-> "inf", s |-> -1, m |-> <<>>, e |-> 0]
Inf(sgn) == IF sgn < 0 THEN NEG_INFINITY ELSE INFINITY
FZero == [k |-> "fin", s |-> 0, m |-> <<>>, e |-> 0]

\* the finite value s * m * 2^e with the trailing zero bits of m moved into e
RECURSIVE Canon(_, _, _)
Canon(s, m, e) ==
    IF m = <<>> \/ s = 0 THEN FZero
    ELSE IF m[1] = 0 THEN Canon(s, Tail(m), e + BigBits)
    ELSE IF m[1] % 2 = 0 THEN Canon(s, BDivSmall(m, 2).q, e + 1)
    ELSE [k |-> "fin", s |-> s, m |-> m, e |-> e]

\* s * (N + f) * 2^e rounded to 53 bits, ties to even; 0 < f < 1 when sticky,
\* f = 0 otherwise (a sticky N has more than 54 bits)
Round(s, N, e, sticky) ==
    IF BitLen(N) <= MantissaBits THEN Canon(s, N, e)
    ELSE LET sh == BitLen(N) - MantissaBits
             t == BShr(N, sh - 1)
             q == BDivSmall(t.q, 2).q
             up == IsOdd(t.q) /\ (t.nz \/ sticky \/ IsOdd(q))
         IN  Canon(s, IF up THEN BAdd(q, <<1>>) ELSE q, e + sh)

\* the f64 of an integer
F(x) == Canon(Sign(x), BFromInt(Abs(x)), 0)

IsNaN(a) == a.k = "nan"
IsFinite(a) == a.k = "fin"

FNeg(a) == [a EXCEPT !.s = -a.s]

\* a + b for finite a and b
FAddFinite(a, b) ==
    LET e == Min(a.e, b.e)
        x == BShl(a.m, a.e - e)
        y == BShl(b.m, b.e - e)
        c == BCmp(x, y)
    IN  IF a.s = 0 THEN b
        ELSE IF b.s = 0 THEN a
        ELSE IF a.s = b.s THEN Round(a.s, BAdd(x, y), e, FALSE)
        ELSE IF c = 0 THEN FZero
        ELSE IF c > 0 THEN Round(a.s, BSub(x, y), e, FALSE)
        ELSE Round(b.s, BSub(y, x), e, FALSE)

FAdd(a, b) ==
    IF IsNaN(a) \/ IsNaN(b) THEN NaN
    ELSE IF a.k = "inf" /\ b.k = "inf" THEN (IF a.s = b.s THEN a ELSE NaN)
    ELSE IF a.k = "inf" THEN a
    ELSE IF b.k = "inf" THEN b
    ELSE FAddFinite(a, b)

FSub(a, b) == FAdd(a, FNeg(b))

FMul(a, b) ==
    IF IsNaN(a) \/ IsNaN(b) THEN NaN
    ELSE IF a.k = "inf" \/ b.k = "inf"
         THEN (IF a.s = 0 \/ b.s = 0 THEN NaN ELSE Inf(a.s * b.s))
    ELSE Round(a.s * b.s, BMul(a.m, b.m), a.e + b.e, FALSE)

\* the quotient bits of x / y after the first, x < y: n more bits of the
\* quotient q, and the remainder
RECURSIVE LongDiv(_, _, _, _)
LongDiv(r, y, q, n) ==
    IF n = 0 THEN [q |-> q, r |-> r]
    ELSE LET r2 == BAdd(r, r)
             q2 == BAdd(q, q)
             ge == BCmp(r2, y) >= 0
             r3 == IF ge THEN BSub(r2, y) ELSE r2
             q3 == IF ge THEN BAdd(q2, <<1>>) ELSE q2
         IN  IF Len(r3) + Len(q3) >= 0 THEN LongDiv(r3, y, q3, n - 1)
             ELSE [q |-> q, r |-> r]

\* a / b for finite non-zero a and b: the quotient of the significands to
\* more than 54 bits, the remainder as the sticky bit
FDivFinite(a, b) ==
    IF Len(b.m) = 1
    THEN LET k == MantissaBits + 2 + BigBits
             d == BDivSmall(BShl(a.m, k), b.m[1])
         IN  Round(a.s * b.s, d.q, a.e - b.e - k, d.r # 0)
    ELSE LET la == BitLen(a.m)
             lb == BitLen(b.m)
             x == BShl(a.m, Max(0, lb - la))
             y == BShl(b.m, Max(0, la - lb))
             first == BCmp(x, y) >= 0
             d == LongDiv(IF first THEN BSub(x, y) ELSE x, y,
                          IF first THEN <<1>> ELSE <<>>, MantissaBits + 3)
         IN  Round(a.s * b.s, d.q, a.e - b.e + (la - lb) - (MantissaBits + 3),
                   d.r # <<>>)

FDiv(a, b) ==
    IF IsNaN(a) \/ IsNaN(b) THEN NaN
    ELSE IF a.k = "inf" THEN (IF b.k = "inf" THEN NaN
                              ELSE Inf(a.s * (IF b.s < 0 THEN -1 ELSE 1)))
    ELSE IF b.k = "inf" THEN FZero
    ELSE IF b.s = 0 THEN (IF a.s = 0 THEN NaN ELSE Inf(a.s))
    ELSE IF a.s = 0 THEN FZero
    ELSE FDivFinite(a, b)

\* |a| < |b| for finite non-zero a and b
MagLt(a, b) ==
    LET ta == BitLen(a.m) + a.e
        tb == BitLen(b.m) + b.e
        e == Min(a.e, b.e)
    IN  IF ta # tb THEN ta < tb
        ELSE BCmp(BShl(a.m, a.e - e), BShl(b.m, b.e - e)) < 0

\* a < b; false when either is NaN
FLt(a, b) ==
    IF IsNaN(a) \/ IsNaN(b) THEN FALSE
    ELSE IF a.k = "inf" THEN a.s < 0 /\ ~(b.k = "inf" /\ b.s < 0)
    ELSE IF b.k = "inf" THEN b.s > 0
    ELSE IF a.s # b.s THEN a.s < b.s
    ELSE IF a.s = 0 THEN FALSE
    ELSE IF a.s > 0 THEN MagLt(a, b) ELSE MagLt(b, a)

FGt(a, b) == FLt(b, a)

\* f64::abs
FAbs(a) == IF IsNaN(a) THEN NaN ELSE [a EXCEPT !.s = Abs(a.s)]

\* f64::max and f64::min: the other operand when one is NaN
FMax(a, b) == IF IsNaN(a) THEN b ELSE IF IsNaN(b) THEN a ELSE IF FLt(a, b) THEN b ELSE a
FMin(a, b) == IF IsNaN(a) THEN b ELSE IF IsNaN(b) THEN a ELSE IF FLt(b, a) THEN b ELSE a

LimbBase == 65536
U64Zero == <<0, 0, 0, 0>>

\* the sum of two u64 modulo 2^64, and whether the exact sum exceeds u64::MAX
U64Add(x, y) ==
    LET s4 == x[4] + y[4]
        s3 == x[3] + y[3] + (s4 \div LimbBase)
        s2 == x[2] + y[2] + (s3 \div LimbBase)
        s1 == x[1] + y[1] + (s2 \div LimbBase)
    IN  [sum |-> <<s1 % LimbBase, s2 % LimbBase, s3 % LimbBase, s4 % LimbBase>>,
         overflow |-> s1 >= LimbBase]

\* the natural number a u64 holds
U64ToBig(v) ==
    LET two16 == BFromInt(LimbBase)
        n1 == BFromInt(v[1])
        n2 == BAdd(BMul(n1, two16), BFromInt(v[2]))
        n3 == BAdd(BMul(n2, two16), BFromInt(v[3]))
    IN  BAdd(BMul(n3, two16), BFromInt(v[4]))

\* `v as f64` for a u64 v: the nearest f64
U64ToF64(v) == Round(1, U64ToBig(v), 0, FALSE)

----------------------------------------------------------------------------
(* src/analyzer.rs: the period analyzers.  overflow_checks is the build's  *)
(* setting for integer overflow: a debug build panics, a release build     *)
(* wraps.                                                                  *)

EmptyInput == [tag |-> "err", error |-> "No data available for analysis"]
Panicked == [tag |-> "panic"]

Last(data) == data[Len(data)]

\* the high of the last point in place of the greatest
fold_high_last(data, i, acc) == Last(data).high

\* data.iter().map(|d| d.high).fold(f64::NEG_INFINITY, f64::max)
RECURSIVE fold_high(_, _, _)
fold_high(data, i, acc) ==
    IF i > Len(data) THEN acc ELSE fold_high(data, i + 1, FMax(acc, data[i].high))

\* data.iter().map(|d| d.low).fold(f64::INFINITY, f64::min)
RECURSIVE fold_low(_, _, _)
fold_low(data, i, acc) ==
    IF i > Len(data) THEN acc ELSE fold_low(data, i + 1, FMin(acc, data[i].low))

\* the latest point taken as its own predecessor, whatever the length
previous_is_latest(data) == Last(data)

\* let previous = if data.len() > 1 { &data[data.len() - 2] } else { latest }
previous_point(data) == IF Len(data) > 1 THEN data[Len(data) - 1] ELSE Last(data)

\* ((latest.close - historical_low) / (historical_high - historical_low)) * 100.0
relative_to_high(close, historical_high, historical_low) ==
    FMul(FDiv(FSub(close, historical_low),
              FSub(historical_high, historical_low)), F(100))

\* the position measured from the low a second time
relative_to_low_from_low(close, historical_high, historical_low) ==
    relative_to_high(close, historical_high, historical_low)

\* ((historical_high - latest.close) / (historical_high - historical_low)) * 100.0
relative_to_low(close, historical_high, historical_low) ==
    FMul(FDiv(FSub(historical_high, close),
              FSub(historical_high, historical_low)), F(100))

analyze_daily_data(data) ==
    IF Len(data) = 0 THEN EmptyInput
    ELSE
      LET latest == Last(data)
          previous == previous_point(data)
          historical_high == fold_high(data, 1, NEG_INFINITY)
          historical_low == fold_low(data, 1, INFINITY)
      IN  [tag |-> "ok",
           date |-> latest.date,
           current_price |-> latest.close,
           previous_price |-> previous.close,
           price_change_pct |->
               FMul(FDiv(FSub(latest.close, previous.close), previous.close), F(100)),
           relative_to_high |->
               relative_to_high(latest.close, historical_high, historical_low),
           relative_to_low |->
               relative_to_low(latest.close, historical_high, historical_low),
           historical_high |-> historical_high,
           historical_low |-> historical_low,
           volume |-> latest.volume]

\* the state of the scan `for stock_data in data`
ScanStart(data) ==
    [highest_price |-> NEG_INFINITY, lowest_price |-> INFINITY,
     highest_date |-> data[1].date, lowest_date |-> data[1].date,
     total_volume |-> U64Zero, panicked |-> FALSE]

\* one pass of the loop body; total_volume += stock_data.volume panics on
\* overflow under overflow_checks and wraps otherwise
ScanStep(acc, stock_data, overflow_checks) ==
    LET added == U64Add(acc.total_volume, stock_data.volume)
        higher == FGt(stock_data.high, acc.highest_price)
        lower == FLt(stock_data.low, acc.lowest_price)
    IN  [highest_price |-> IF higher THEN stock_data.high ELSE acc.highest_price,
         highest_date |-> IF higher THEN stock_data.date ELSE acc.highest_date,
         lowest_price |-> IF lower THEN stock_data.low ELSE acc.lowest_price,
         lowest_date |-> IF lower THEN stock_data.date ELSE acc.lowest_date,
         total_volume |-> added.sum,
         panicked |-> acc.panicked \/ (overflow_checks /\ added.overflow)]

\* the loop left out: the scan's starting state
scan_nothing(data, i, acc, overflow_checks) == acc

RECURSIVE scan(_, _, _, _)
scan(data, i, acc, overflow_checks) ==
    IF i > Len(data) \/ acc.panicked THEN acc
    ELSE scan(data, i + 1, ScanStep(acc, data[i], overflow_checks), overflow_checks)

analyze_weekly_data(data, overflow_checks) ==
    IF Len(data) = 0 THEN EmptyInput
    ELSE
      LET start_data == data[1]
          end_data == Last(data)
          s == scan(data, 1, ScanStart(data), overflow_checks)
      IN  IF s.panicked THEN Panicked
          ELSE [tag |-> "ok",
                start_date |-> start_data.date,
                end_date |-> end_data.date,
                start_price |-> start_data.close,
                end_price |-> end_data.close,
                change_pct |->
                    FMul(FDiv(FSub(end_data.close, start_data.close),
                              start_data.close), F(100)),
                highest_price |-> s.highest_price,
                highest_date |-> s.highest_date,
                lowest_price |-> s.lowest_price,
                lowest_date |-> s.lowest_date,
                average_volume |-> FDiv(U64ToF64(s.total_volume), F(Len(data))),
                total_volume |-> s.total_volume]

analyze_monthly_data(data, overflow_checks) ==
    LET w == analyze_weekly_data(data, overflow_checks)
    IN  IF w.tag # "ok" THEN w
        ELSE [tag |-> "ok",
              year |-> year(Last(data).date),
              month |-> month(Last(data).date),
              start_date |-> w.start_date,
              end_date |-> w.end_date,
              start_price |-> w.start_price,
              end_price |-> w.end_price,
              change_pct |-> w.change_pct,
              highest_price |-> w.highest_price,
              highest_date |-> w.highest_date,
              lowest_price |-> w.lowest_price,
              lowest_date |-> w.lowest_date,
              average_volume |-> w.average_volume,
              total_volume |-> w.total_volume]

----------------------------------------------------------------------------
(* src/analyzer.rs: the indicators.  A usize is an integer; under          *)
(* overflow_checks a difference below zero panics, and otherwise it wraps: *)
(* the negative integer -k then stands for 2^64 - k.                       *)

\* a < b as usize
ULt(a, b) ==
    IF (a < 0) = (b < 0) THEN a < b ELSE b < 0

\* data[lo..=hi].iter().map(|d| d.close).sum(), lo and hi counted from 0
RECURSIVE sum_closes(_, _, _)
sum_closes(data, lo, hi) ==
    IF hi < lo THEN F(0) ELSE FAdd(sum_closes(data, lo, hi - 1), data[hi + 1].close)

\* xs[lo..=hi].iter().sum::<f64>(), lo and hi counted from 0
RECURSIVE sum_values(_, _, _)
sum_values(xs, lo, hi) ==
    IF hi < lo THEN F(0) ELSE FAdd(sum_values(xs, lo, hi - 1), xs[hi + 1])

Values(xs) == [tag |-> "ok", values |-> xs]

\* i - period + 1, computed as (i - period) + 1
window_start(i, p, overflow_checks) ==
    [panicked |-> overflow_checks /\ i - p < 0, start |-> (i - p) + 1]

\* the loop `for i in 0..data.len()` from pass i on
RECURSIVE moving_average_loop(_, _, _, _, _)
moving_average_loop(data, p, i, averages, overflow_checks) ==
    IF i >= Len(data) THEN Values(averages)
    ELSE IF overflow_checks /\ p - 1 < 0 THEN Panicked
    ELSE IF ULt(i, p - 1)
         THEN moving_average_loop(data, p, i + 1, Append(averages, F(0)),
                                  overflow_checks)
    ELSE LET w == window_start(i, p, overflow_checks)
             average == FDiv(sum_closes(data, w.start, i), F(p))
         IN  IF w.panicked THEN Panicked
             ELSE moving_average_loop(data, p, i + 1, Append(averages, average),
                                      overflow_checks)

calculate_moving_average(data, p, overflow_checks) ==
    moving_average_loop(data, p, 0, <<>>, overflow_checks)

\* the price changes `for i in 1..data.len()`
change(data, i) == FSub(data[i + 1].close, data[i].close)
gains(data) ==
    [i \in 1..(Len(data) - 1) |->
        IF FGt(change(data, i), F(0)) THEN change(data, i) ELSE F(0)]
losses(data) ==
    [i \in 1..(Len(data) - 1) |->
        IF FGt(change(data, i), F(0)) THEN F(0) ELSE FAbs(change(data, i))]

\* losses[lo..=hi].iter().sum::<f64>() / period as f64
avg_loss(ls, lo, hi, p) == FDiv(sum_values(ls, lo, hi), F(p))

\* one RSI value from the averages of the window lo..=hi
rsi_value(gs, ls, lo, hi, p) ==
    LET avg_gain == FDiv(sum_values(gs, lo, hi), F(p))
        rs == FDiv(avg_gain, avg_loss(ls, lo, hi, p))
    IN  IF avg_loss(ls, lo, hi, p) = F(0) THEN F(100)
        ELSE FSub(F(100), FDiv(F(100), FAdd(F(1), rs)))

\* the loop `for i in period - 1..gains.len()` from pass i on
RECURSIVE rsi_loop(_, _, _, _, _)
rsi_loop(data, p, i, rsi_values, overflow_checks) ==
    IF ~ULt(i, Len(data) - 1) THEN Values(rsi_values)
    ELSE LET w == window_start(i, p, overflow_checks)
         IN  IF w.panicked THEN Panicked
             ELSE rsi_loop(data, p, i + 1,
                           Append(rsi_values,
                                  rsi_value(gains(data), losses(data), w.start, i, p)),
                           overflow_checks)

calculate_rsi(data, p, overflow_checks) ==
    IF Len(data) < p + 1 THEN Values(<<>>)
    ELSE IF overflow_checks /\ p - 1 < 0 THEN Panicked
    ELSE rsi_loop(data, p, p - 1, <<>>, overflow_checks)

----------------------------------------------------------------------------
(* The analyzer specification: one analyzer is called on any input.        *)

\* the longest input sequence
MaxLen == 3

\* 1000, 2^63 and u64::MAX as u64
Thousand == <<0, 0, 0, 1000>>
TwoTo63 == <<32768, 0, 0, 0>>
U64Max == <<65535, 65535, 65535, 65535>>

Quote(high, low, close, volume) ==
    [high |-> high, low |-> low, close |-> close, volume |-> volume]

\* a day's prices and volume, low <= close <= high: days without a range at
\* 0, 100 and 110, days between 100 and 110 closing at either end, and days
\* between 0 and 3 closing at 0, 1 and 3; volumes from 0 to u64::MAX
Quotes ==
    { Quote(0, 0, 0, U64Zero),
      Quote(100, 100, 100, Thousand),
      Quote(110, 110, 110, U64Max),
      Quote(110, 100, 100, Thousand),
      Quote(110, 100, 110, Thousand),
      Quote(110, 100, 110, TwoTo63),
      Quote(3, 0, 0, Thousand),
      Quote(3, 0, 1, Thousand),
      Quote(3, 0, 3, TwoTo63) }

\* the point for the i-th day of the window, ascending by date
StockData(i, q) ==
    [date |-> (FirstDay + i) * TicksPerDay, open |-> F(q.low), high |-> F(q.high),
     low |-> F(q.low), close |-> F(q.close), volume |-> q.volume]

\* the input built from the quotes of n successive days
Input(n, qs) == [i \in 1..n |-> StockData(i, qs[i])]

AnalyzerInit ==
    /\ \E n \in 0..MaxLen : \E qs \in [1..n -> Quotes] : input = Input(n, qs)
    /\ period = 0
    /\ outcome = [tag |-> "none"]
    /\ clock = 0 /\ call = NoCall(0)
    /\ pc = "idle" /\ mode = "" /\ now = 0 /\ next_execution = 0
    /\ wait_duration = 0 /\ wake_at = 0 /\ fired = 0 /\ invoked_at = 0
    /\ NotRunning

AnalyzeDaily ==
    /\ outcome.tag = "none"
    /\ outcome' = analyze_daily_data(input) @@ [fn |-> "daily"]
    /\ UNCHANGED <<input, period, clock, call, schedVars, runVars>>

AnalyzeWeekly ==
    /\ outcome.tag = "none"
    /\ \E overflow_checks \in BOOLEAN :
         outcome' = analyze_weekly_data(input, overflow_checks) @@ [fn |-> "weekly"]
    /\ UNCHANGED <<input, period, clock, call, schedVars, runVars>>

AnalyzeMonthly ==
    /\ outcome.tag = "none"
    /\ \E overflow_checks \in BOOLEAN :
         outcome' = analyze_monthly_data(input, overflow_checks) @@ [fn |-> "monthly"]
    /\ UNCHANGED <<input, period, clock, call, schedVars, runVars>>

AnalyzerNext ==
    \/ AnalyzeDaily
    \/ AnalyzeWeekly
    \/ AnalyzeMonthly

SpecAnalyzer == AnalyzerInit /\ [][AnalyzerNext]_vars

----------------------------------------------------------------------------
(* The indicator specification: one indicator is called on any closes and  *)
(* any period.                                                             *)

\* the greatest period
MaxPeriod == 4

\* closes: three prices, so that a window rises, falls or stays
Closes == {100, 103, 110}

\* the input whose closes are cs
ClosesInput(cs) ==
    [i \in 1..Len(cs) |-> StockData(i, Quote(cs[i], cs[i], cs[i], Thousand))]

IndicatorInit ==
    /\ \E n \in 0..MaxLen : \E cs \in [1..n -> Closes] : input = ClosesInput(cs)
    /\ period \in 0..MaxPeriod
    /\ outcome = [tag |-> "none"]
    /\ clock = 0 /\ call = NoCall(0)
    /\ pc = "idle" /\ mode = "" /\ now = 0 /\ next_execution = 0
    /\ wait_duration = 0 /\ wake_at = 0 /\ fired = 0 /\ invoked_at = 0
    /\ NotRunning

CalculateMovingAverage ==
    /\ outcome.tag = "none"
    /\ \E overflow_checks \in BOOLEAN :
         outcome' = calculate_moving_average(input, period, overflow_checks)
                        @@ [fn |-> "moving_average"]
    /\ UNCHANGED <<input, period, clock, call, schedVars, runVars>>

CalculateRsi ==
    /\ outcome.tag = "none"
    /\ \E overflow_checks \in BOOLEAN :
         outcome' = calculate_rsi(input, period, overflow_checks) @@ [fn |-> "rsi"]
    /\ UNCHANGED <<input, period, clock, call, schedVars, runVars>>

IndicatorNext == CalculateMovingAverage \/ CalculateRsi

SpecIndicator == IndicatorInit /\ [][IndicatorNext]_vars

----------------------------------------------------------------------------
(* The command-line run of main.rs: the mode's analysis, its narrative and *)
(* the optional email.                                                     *)

\* exit status of a process whose main returns Ok(()), returns an Err (or
\* calls std::process::exit(1)), or panics
ExitSuccess == 0
ExitFailure == 1
ExitPanic == 101

\* the arms of main's match
RunModes == {"daily", "weekly", "monthly"}

run_of(m) ==
    CASE m = "daily" -> "run_daily_analysis"
      [] m = "weekly" -> "run_weekly_analysis"
      [] m = "monthly" -> "run_monthly_analysis"
      [] OTHER -> "none"

\* a call of one of the run functions with its send_email parameter
Frame(f, send_email) == [fn |-> f, send_email |-> send_email]

\* the function that is executing
Top == frames[Len(frames)]

\* the caller's flag handed on to the daily analysis
daily_first_with_flag(send_email) == Frame("run_daily_analysis", send_email)

\* run_weekly_analysis and run_monthly_analysis: run_daily_analysis(false)
daily_first(send_email) == Frame("run_daily_analysis", FALSE)

\* the analyzer the executing function calls on what it fetched
analyze(f, d, overflow_checks) ==
    CASE f = "run_daily_analysis" -> analyze_daily_data(d)
      [] f = "run_weekly_analysis" -> analyze_weekly_data(d, overflow_checks)
      [] f = "run_monthly_analysis" -> analyze_monthly_data(d, overflow_checks)

\* a call of a collaborator by the executing function, and whether it
\* returned Ok
Step(name, ok) ==
    [fn |-> Top.fn, send_email |-> Top.send_email, step |-> name, ok |-> ok]

\* `?` on an Err returns it from every run function and from main; a panic
\* unwinds them: the process ends with the given status
Abort(name, code) ==
    /\ steps' = Append(steps, Step(name, FALSE))
    /\ frames' = <<>>
    /\ at' = "exit"
    /\ exit_code' = code

\* what a source may return: a point of ordinary volume, and one whose
\* volume makes the total overflow
FetchQuotes == {Quote(110, 100, 110, Thousand), Quote(110, 110, 110, U64Max)}

RunInit ==
    /\ args \in [mode : Modes, send_email : BOOLEAN]
    /\ frames = <<>> /\ at = "main" /\ fetched = <<>> /\ steps = <<>>
    /\ exit_code = None
    /\ clock = 0 /\ call = NoCall(0)
    /\ pc = "idle" /\ mode = "" /\ now = 0 /\ next_execution = 0
    /\ wait_duration = 0 /\ wake_at = 0 /\ fired = 0 /\ invoked_at = 0
    /\ input = <<>> /\ period = 0 /\ outcome = [tag |-> "none"]

\* main, lines 50-61: the match on the mode
Main ==
    /\ at = "main"
    /\ IF args.mode \in RunModes
       THEN /\ frames' = <<Frame(run_of(args.mode), args.send_email)>>
            /\ at' = IF args.mode = "daily" THEN "fetch" ELSE "daily"
            /\ UNCHANGED exit_code
       ELSE /\ at' = "exit"
            /\ exit_code' = ExitFailure
            /\ UNCHANGED frames
    /\ UNCHANGED <<args, fetched, steps, clock, call, schedVars, analyzerVars>>

\* lines 110 and 135: the weekly and the monthly run start with the daily one
DailyFirst ==
    /\ at = "daily"
    /\ frames' = Append(frames, daily_first(Top.send_email))
    /\ at' = "fetch"
    /\ UNCHANGED <<args, fetched, steps, exit_code, clock, call, schedVars,
                   analyzerVars>>

\* lines 75, 113 and 138: fetch_hs300_data falls back from source to source
\* and to generated points, and returns Ok with whatever it got
Fetch ==
    /\ at = "fetch"
    /\ \E n \in 0..MaxLen : \E qs \in [1..n -> FetchQuotes] :
          fetched' = Input(n, qs)
    /\ steps' = Append(steps, Step("fetch", TRUE))
    /\ at' = "analyze"
    /\ UNCHANGED <<args, frames, exit_code, clock, call, schedVars,
                   analyzerVars>>

\* lines 79, 114 and 139
Analyze ==
    /\ at = "analyze"
    /\ \E overflow_checks \in BOOLEAN :
          \E r \in {analyze(Top.fn, fetched, overflow_checks)} :
              IF r.tag = "ok"
              THEN /\ steps' = Append(steps, Step("analyze", TRUE))
                   /\ at' = "generate"
                   /\ UNCHANGED <<frames, exit_code>>
              ELSE IF r.tag = "err"
              THEN Abort("analyze", ExitFailure)
              ELSE Abort("analyze", ExitPanic)
    /\ UNCHANGED <<args, fetched, clock, call, schedVars, analyzerVars>>

\* lines 86, 115 and 140: the narrative, then the report is printed
Generate ==
    /\ at = "generate"
    /\ \E ok \in BOOLEAN :
          IF ok
          THEN /\ steps' = Append(steps, Step("generate", TRUE))
               /\ at' = "email"
               /\ UNCHANGED <<frames, exit_code>>
          ELSE Abort("generate", ExitFailure)
    /\ UNCHANGED <<args, fetched, clock, call, schedVars, analyzerVars>>

\* lines 94-97, 120-122 and 145-147: if send_email { send_email(..).await?; }
Email ==
    /\ at = "email"
    /\ IF Top.send_email
       THEN \E ok \in BOOLEAN :
               IF ok
               THEN /\ steps' = Append(steps, Step("email", TRUE))
                    /\ at' = "return"
                    /\ UNCHANGED <<frames, exit_code>>
               ELSE Abort("email", ExitFailure)
       ELSE /\ at' = "return"
            /\ UNCHANGED <<steps, frames, exit_code>>
    /\ UNCHANGED <<args, fetched, clock, call, schedVars, analyzerVars>>

\* Ok(()) of a run function: back in the weekly or monthly run, or in main,
\* which returns Ok(()) in its turn
Return ==
    /\ at = "return"
    /\ IF Len(frames) > 1
       THEN /\ frames' = SubSeq(frames, 1, Len(frames) - 1)
            /\ at' = "fetch"
            /\ UNCHANGED exit_code
       ELSE /\ frames' = <<>>
            /\ at' = "exit"
            /\ exit_code' = ExitSuccess
    /\ UNCHANGED <<args, fetched, steps, clock, call, schedVars, analyzerVars>>

RunNext ==
    \/ Main
    \/ DailyFirst
    \/ Fetch
    \/ Analyze
    \/ Generate
    \/ Email
    \/ Return

SpecRun == RunInit /\ [][RunNext]_vars

----------------------------------------------------------------------------
(* Properties of the calendar functions.                                   *)

\* ticks from midnight to 20:00:00.000
TargetTick == target_hour * TicksPerHour + target_minute * TicksPerMinute

\* the instant is at exactly 20:00:00 UTC
AtTarget(t) == TickOfDay(t) = TargetTick

\* 20:00:00 UTC of day number dn
TargetOfDay(dn) == dn * TicksPerDay + TargetTick

\* 00:00:00 UTC on the first day of the month following date's month
FirstOfNextMonth(date) ==
    MakeInstant(next_year(date), next_month(date), 1, 0, 0, 0, 0)

\* the date is one of the final three calendar days of its month
InFinalThreeDays(t) == day(t) >= DaysInMonth(year(t), month(t)) - 2

Returned(op, m) == call.op = op /\ call.mode = m

\* C1: get_next_execution_time("daily", now) is the earliest instant strictly
\* after now at exactly 20:00:00 UTC on a workday: it is in the future, on a
\* workday, at 20:00:00, and no workday 20:00:00 instant lies strictly between
\* now and it.
C1_DailyEarliestWorkdayTarget ==
    Returned("get_next_execution_time", "daily") =>
        /\ ~call.panicked
        /\ call.t > call.arg
        /\ is_workday(call.t)
        /\ AtTarget(call.t)
        /\ \A dn \in DayOf(call.arg)..DayOf(call.t) :
              ~(/\ call.arg < TargetOfDay(dn)
                /\ TargetOfDay(dn) < call.t
                /\ is_workday(TargetOfDay(dn)))

\* C2: get_next_execution_time("weekly", now) is the next Friday 20:00:00 UTC
\* strictly after now: a Friday, at 20:00:00, after now, at most 7 days after
\* now; one week later when now is a Friday at or after 20:00:00, the same day
\* when now is a Friday before 20:00:00.
C2_WeeklyNextFridayTarget ==
    Returned("get_next_execution_time", "weekly") =>
        /\ ~call.panicked
        /\ is_friday(call.t)
        /\ AtTarget(call.t)
        /\ call.t > call.arg
        /\ call.t - call.arg <= Days(7)
        /\ (is_friday(call.arg) /\ TickOfDay(call.arg) >= TargetTick)
              => DayOf(call.t) = DayOf(call.arg) + 7
        /\ (is_friday(call.arg) /\ TickOfDay(call.arg) < TargetTick)
              => DayOf(call.t) = DayOf(call.arg)
        /\ \A dn \in DayOf(call.arg)..DayOf(call.t) :
              ~(/\ call.arg < TargetOfDay(dn)
                /\ TargetOfDay(dn) < call.t
                /\ is_friday(TargetOfDay(dn)))

\* C3: get_next_execution_time("monthly", now) returns the first candidate
\* (today at 20:00 UTC) + k days, k = 1, 2, ..., that is_last_workday_of_month
\* accepts; the result is at 20:00:00 UTC, a workday, accepted by
\* is_last_workday_of_month, and strictly after now.
C3_MonthlyFirstAccepted ==
    Returned("get_next_execution_time", "monthly") =>
        /\ ~call.panicked
        /\ \E k \in 1..40 :
              /\ call.t = TargetOfDay(DayOf(call.arg)) + Days(k)
              /\ \A j \in 1..(k - 1) :
                    LET c == TargetOfDay(DayOf(call.arg)) + Days(j)
                    IN  /\ ~is_last_workday_of_month_panics(c, clock)
                        /\ ~is_last_workday_of_month(c, clock)
        /\ AtTarget(call.t)
        /\ is_workday(call.t)
        /\ ~is_last_workday_of_month_panics(call.t, clock)
        /\ is_last_workday_of_month(call.t, clock)
        /\ call.t > call.arg

\* C4: the instant get_next_execution_time("monthly", now) returns, and every
\* instant is_last_workday_of_month accepts, is on one of the final three
\* calendar days of its month.
C4_LastWorkdayInFinalThreeDays ==
    /\ (Returned("is_last_workday_of_month", "") /\ ~call.panicked /\ call.b)
          => InFinalThreeDays(call.arg)
    /\ (Returned("get_next_execution_time", "monthly") /\ ~call.panicked)
          => InFinalThreeDays(call.t)

\* C5: get_next_execution_time and is_last_workday_of_month return for every
\* instant and every wall-clock reading: neither panics.
C5_DateArithmeticTotal ==
    call.op \in {"get_next_execution_time", "is_last_workday_of_month"}
        => ~call.panicked

\* C6: the outcome of is_workday, is_friday and is_last_workday_of_month for
\* a date is the same at every wall-clock reading.
C6_ClassifiersPure ==
    /\ call.op = "is_workday" => call.b = is_workday(call.arg)
    /\ call.op = "is_friday" => call.b = is_friday(call.arg)
    /\ call.op = "is_last_workday_of_month" =>
          \A w \in WallClocks :
              /\ is_last_workday_of_month_panics(call.arg, w) = call.panicked
              /\ ~call.panicked => is_last_workday_of_month(call.arg, w) = call.b

\* C7: is_last_workday_of_month(date) is true exactly when date is a workday
\* and the whole-day difference between 00:00:00 UTC on the first day of the
\* following month and date is in 1..3.
C7_LastWorkdayIffOneToThreeDays ==
    call.op = "is_last_workday_of_month" =>
        /\ ~call.panicked
        /\ call.b <=> (/\ is_workday(call.arg)
                       /\ num_days(FirstOfNextMonth(call.arg) - call.arg) \in 1..3)

----------------------------------------------------------------------------
(* Properties of the scheduler loop.                                       *)

\* C8: the scheduler loop never stops on its own: in every mode it goes on
\* computing, sleeping and invoking the action.
C8_LoopNeverStops == pc # "panicked"

\* the positions of one iteration, in the order of the loop body
C9_Order ==
    \/ pc' = pc
    \/ pc = "compute" /\ pc' \in {"sleep", "panicked"}
    \/ pc = "sleep" /\ pc' = "invoke"
    \/ pc = "invoke" /\ pc' = "cooldown" /\ fired' = 1
    \/ pc = "cooldown" /\ pc' = "compute"
          /\ clock' >= clock + CooldownSecs * SubPerSec

C9_Once ==
    /\ pc \in {"sleep", "invoke"} => fired = 0
    /\ pc = "cooldown" =>
          /\ fired = 1
          /\ invoked_at >= next_execution
          /\ invoked_at >= now + wait_duration

\* C9: in every iteration the steps are compute, sleep, invoke, 5-second
\* cool-down, in this order; the action is invoked once per computed fire
\* instant, not before the wall clock has reached it, and not a second time.
C9_IterationOrder == [](C9_Once) /\ [][C9_Order]_vars

\* an iteration ran to its cool-down: the action was invoked at or after the
\* fire instant computed for it
C9_Witness ==
    /\ pc = "cooldown"
    /\ fired = 1
    /\ next_execution > now
    /\ invoked_at >= next_execution

----------------------------------------------------------------------------
(* Properties of the period analyzers.                                     *)

\* C10: analyze_daily_data, analyze_weekly_data and analyze_monthly_data fail
\* exactly when the input is empty: the empty input gives the empty-input
\* error, every other input gives a summary.
C10_FailIffEmpty ==
    outcome.tag # "none" =>
        /\ Len(input) = 0 => outcome.tag = "err"
        /\ Len(input) > 0 => outcome.tag = "ok"

----------------------------------------------------------------------------
(* The daily analyzer.                                                     *)

DailyOk == outcome.tag = "ok" /\ outcome.fn = "daily"

\* the closes of the input, as integers
ClosesAre(cs) ==
    /\ Len(input) = Len(cs)
    /\ \A i \in 1..Len(cs) : input[i].close = F(cs[i])

\* C11: the daily summary's current price is the close of the last point and
\* its previous price the close of the second-to-last point, or of the last
\* point when there is only one; price_change_pct is
\* (current - previous) / previous * 100 on those two: closes [100, 110] give
\* exactly 10, and a single point with a non-zero close gives 0.
C11_DailyChange ==
    DailyOk =>
        LET n == Len(input)
            current == input[n].close
            previous == IF n >= 2 THEN input[n - 1].close ELSE input[n].close
        IN  /\ outcome.current_price = current
            /\ outcome.previous_price = previous
            /\ outcome.price_change_pct =
                   FMul(FDiv(FSub(current, previous), previous), F(100))
            /\ ClosesAre(<<100, 110>>) => outcome.price_change_pct = F(10)
            /\ n = 1 /\ current # F(0) => outcome.price_change_pct = F(0)

C11_Witness ==
    /\ DailyOk
    /\ ClosesAre(<<100, 110>>)
    /\ outcome.previous_price = F(100)
    /\ outcome.price_change_pct = F(10)

\* a <= b
FLe(a, b) == FLt(a, b) \/ (a = b /\ ~IsNaN(a))

\* C12: in the daily summary historical_high is at least the high of every
\* input point and historical_low at most the low of every input point, and
\* each is the high, respectively the low, of some input point.
C12_HistoricalExtrema ==
    DailyOk =>
        /\ \A i \in 1..Len(input) :
              /\ FLe(input[i].high, outcome.historical_high)
              /\ FLe(outcome.historical_low, input[i].low)
        /\ \E i \in 1..Len(input) : input[i].high = outcome.historical_high
        /\ \E i \in 1..Len(input) : input[i].low = outcome.historical_low

C12_Witness ==
    /\ DailyOk
    /\ FLt(Last(input).high, outcome.historical_high)
    /\ FLt(outcome.historical_low, Last(input).low)
    /\ outcome.historical_high # input[1].high

\* relative_to_high + relative_to_low of the daily summary
RelativeSum == FAdd(outcome.relative_to_high, outcome.relative_to_low)

\* the floating tolerance, 10^-9
Tolerance == FDiv(F(1), F(1000000000))

----------------------------------------------------------------------------
(* The weekly and monthly analyzers.                                       *)

PeriodCall == outcome.tag # "none" /\ outcome.fn \in {"weekly", "monthly"}
PeriodOk == PeriodCall /\ outcome.tag = "ok"

\* the f64 a is the number the u64 v holds
F64IsU64(a, v) == a = Canon(1, U64ToBig(v), 0)

\* what a single-point input gives whatever its close and volume
SinglePointCommon ==
    /\ outcome.tag = "ok"
    /\ outcome.start_date = input[1].date /\ outcome.end_date = input[1].date
    /\ outcome.start_price = input[1].close /\ outcome.end_price = input[1].close
    /\ outcome.highest_price = input[1].high
    /\ outcome.lowest_price = input[1].low
    /\ outcome.highest_date = input[1].date /\ outcome.lowest_date = input[1].date
    /\ outcome.total_volume = input[1].volume

\* C14: on an input of exactly one point the weekly and the monthly analyzer
\* return start = end in date and price, change_pct = 0, highest_price the
\* point's high and lowest_price its low, both dated at the point, and
\* average_volume = total_volume = the point's volume.
C14_SinglePoint ==
    PeriodCall /\ Len(input) = 1 =>
        /\ SinglePointCommon
        /\ outcome.change_pct = F(0)
        /\ F64IsU64(outcome.average_volume, input[1].volume)

\* C14, amended: as C14, but change_pct is 0 only when the point's close is
\* not zero and NaN when it is, and average_volume is the point's volume
\* converted to f64, the nearest f64 to it.
C14_SinglePointAmended ==
    PeriodCall /\ Len(input) = 1 =>
        /\ SinglePointCommon
        /\ input[1].close # F(0) => outcome.change_pct = F(0)
        /\ input[1].close = F(0) => IsNaN(outcome.change_pct)
        /\ outcome.average_volume = U64ToF64(input[1].volume)

C14_Witness ==
    /\ PeriodOk /\ Len(input) = 1
    /\ outcome.fn = "monthly"
    /\ IsNaN(outcome.change_pct)
    /\ outcome.highest_price = F(3)

\* the first index whose high is h, and the first whose low is l
FirstHigh(h) == CHOOSE i \in 1..Len(input) :
    input[i].high = h /\ \A j \in 1..(i - 1) : input[j].high # h
FirstLow(l) == CHOOSE i \in 1..Len(input) :
    input[i].low = l /\ \A j \in 1..(i - 1) : input[j].low # l

\* C15: on every non-empty input the weekly and the monthly analyzer report
\* highest_price = the greatest high and lowest_price = the least low of all
\* points, dated at the earliest point that attains it.
C15_ExtremaFirstOccurrence ==
    PeriodCall /\ Len(input) > 0 =>
        /\ outcome.tag = "ok"
        /\ \A i \in 1..Len(input) :
              /\ FLe(input[i].high, outcome.highest_price)
              /\ FLe(outcome.lowest_price, input[i].low)
        /\ \E i \in 1..Len(input) : input[i].high = outcome.highest_price
        /\ \E i \in 1..Len(input) : input[i].low = outcome.lowest_price
        /\ outcome.highest_date = input[FirstHigh(outcome.highest_price)].date
        /\ outcome.lowest_date = input[FirstLow(outcome.lowest_price)].date

----------------------------------------------------------------------------
(* The indicators.                                                         *)

MovingAverageCall == outcome.tag # "none" /\ outcome.fn = "moving_average"
RsiCall == outcome.tag # "none" /\ outcome.fn = "rsi"

\* the arithmetic mean of the p closes at indices lo..hi, counted from 0
Mean(lo, hi, p) == FDiv(sum_closes(input, lo, hi), F(p))

\* C16: for every input and every period p the moving average returns a
\* sequence of the input's length whose entries at indices below p - 1 are
\* 0.0 and whose entry at each index i >= p - 1 is the mean of the p closes
\* at indices i - p + 1 .. i.
C16_MovingAverage ==
    MovingAverageCall =>
        /\ outcome.tag = "ok"
        /\ Len(outcome.values) = Len(input)
        /\ \A i \in 0..(Len(input) - 1) :
              outcome.values[i + 1] =
                  IF i < period - 1 THEN F(0) ELSE Mean(i - period + 1, i, period)

\* the losses of the p changes that end at change j, counted from 1, are 0
NoLoss(j, p) ==
    \A c \in (j - p + 1)..j : ~FLt(input[c + 1].close, input[c].close)

\* C17: for n points and period p the RSI returns nothing when n < p + 1 and
\* otherwise exactly n - p values, each of them 100 when the average loss
\* over its window of p changes is 0.
C17_Rsi ==
    RsiCall =>
        /\ outcome.tag = "ok"
        /\ Len(input) < period + 1 => outcome.values = <<>>
        /\ Len(input) >= period + 1 =>
              /\ Len(outcome.values) = Len(input) - period
              /\ \A k \in 1..(Len(input) - period) :
                    NoLoss(k + period - 1, period) => outcome.values[k] = F(100)

----------------------------------------------------------------------------
(* More properties of the calendar functions.                              *)

\* the instants of the model on the day of t
SameDay(t) ==
    { DayOf(t) * TicksPerDay + sec * SubPerSec + u :
        sec \in TimesOfDay, u \in 0..(SubPerSec - 1) }

\* C18: is_workday(date) is false exactly when the date falls on a Saturday
\* or a Sunday, whatever the time of day.
C18_WorkdayExactlyWeekdays ==
    call.op = "is_workday" =>
        /\ ~call.b <=> weekday(DayOf(call.arg) * TicksPerDay) \in {Sat, Sun}
        /\ \A t \in SameDay(call.arg) : is_workday(t) = call.b

C18_Witness ==
    /\ call.op = "is_workday"
    /\ weekday(call.arg) = Sat
    /\ hour(call.arg) = 21
    /\ ~call.b

\* C19: get_next_execution_time with a mode other than "daily", "weekly" and
\* "monthly", a differently-cased or an empty one included, returns what it
\* returns for "daily" on the same instant.
C19_UnknownModeIsDaily ==
    call.op = "get_next_execution_time"
        /\ call.mode \notin {"daily", "weekly", "monthly"} =>
        /\ ~call.panicked
        /\ call.t = get_next_execution_time("daily", call.arg, clock)

C19_Witness ==
    /\ call.op = "get_next_execution_time"
    /\ call.mode = "Daily"
    /\ call.t = get_next_execution_time("daily", call.arg, clock)
    /\ call.t # get_next_execution_time("weekly", call.arg, clock)

----------------------------------------------------------------------------
(* More properties of the scheduler loop.                                  *)

\* a step that computes a fire instant: before it next_execution holds the
\* instant of the iteration before (0 in the first), after it the new one
C20_Compute ==
    pc = "compute" /\ pc' = "sleep" =>
        /\ next_execution' > next_execution
        /\ next_execution' > now'
        /\ wait_duration' = next_execution' - now'
        /\ wait_duration' > 0

\* a step that invokes the action: the first for its fire instant
C20_Invoke ==
    pc = "invoke" /\ pc' = "cooldown" =>
        fired = 0 /\ fired' = 1 /\ invoked_at' >= next_execution

\* C20: in every mode and for any action duration the fire instants computed
\* in successive iterations are strictly increasing, the action is invoked
\* once for each, and every wait is the strictly positive difference between
\* the fire instant and the clock reading: the 60-second fallback is never
\* taken.
C20_FireInstantsIncrease == [][C20_Compute /\ C20_Invoke]_vars

\* a later iteration, begun after an action that ran past the next day's
\* target, sleeps until its own fire instant
C20_Witness ==
    /\ pc = "sleep"
    /\ DayOf(now) > FirstDay + 1
    /\ hour(now) = 22
    /\ wait_duration = next_execution - now
    /\ wait_duration > 0

----------------------------------------------------------------------------
(* The monthly mode.                                                       *)

\* the calendar month of an instant
MonthOf(t) == <<year(t), month(t)>>

\* C21: in monthly mode two successive fire instants computed by the loop
\* fall in different calendar months: the scheduler fires at most once per
\* calendar month.
C21_OncePerMonth ==
    [][mode = "monthly" /\ pc = "compute" /\ pc' = "sleep" /\ next_execution # 0
           => MonthOf(next_execution') # MonthOf(next_execution)]_vars

\* is_last_workday_of_month returns true for 20:00:00 UTC of day number dn
Qualifies(dn) ==
    /\ ~is_last_workday_of_month_panics(TargetOfDay(dn), clock)
    /\ is_last_workday_of_month(TargetOfDay(dn), clock)

\* C22: get_next_execution_time("monthly", now) returns the earliest
\* 20:00:00 UTC instant strictly after now that satisfies
\* is_last_workday_of_month; when now is before 20:00:00 on a day whose
\* 20:00:00 instant satisfies it, the result is that same day at 20:00:00.
C22_MonthlyEarliest ==
    Returned("get_next_execution_time", "monthly") =>
        /\ ~call.panicked
        /\ call.t > call.arg
        /\ AtTarget(call.t)
        /\ Qualifies(DayOf(call.t))
        /\ \A dn \in DayOf(call.arg)..DayOf(call.t) :
              ~(/\ call.arg < TargetOfDay(dn)
                /\ TargetOfDay(dn) < call.t
                /\ Qualifies(dn))
        /\ (TickOfDay(call.arg) < TargetTick /\ Qualifies(DayOf(call.arg)))
              => call.t = TargetOfDay(DayOf(call.arg))

\* the number of `+= Duration::days(1)` that take the loop variable from the
\* call's (today at 20:00) to the instant returned
Advances == (call.t - at_target(call.arg)) \div Days(1)

\* the day numbers of the calendar month of t
DaysOfMonth(t) ==
    LET first == DayOf(t) - (day(t) - 1)
    IN  first..(first + DaysInMonth(year(t), month(t)) - 1)

\* C23: every search loop of get_next_execution_time ends with a result after
\* a bounded number of one-day advances: at most 3 in daily mode, 7 in weekly
\* mode and 35 in monthly mode; every calendar month has a workday whose
\* 20:00:00 UTC instant satisfies is_last_workday_of_month.
C23_BoundedSearch ==
    /\ call.op = "get_next_execution_time" =>
          /\ ~call.panicked
          /\ Advances >= 0
          /\ call.mode = "weekly" => Advances <= 7
          /\ call.mode = "monthly" => Advances <= 35
          /\ call.mode \notin {"weekly", "monthly"} => Advances <= 3
    /\ call.op = "is_last_workday_of_month" =>
          \E dn \in DaysOfMonth(call.arg) :
              is_workday(TargetOfDay(dn)) /\ Qualifies(dn)

----------------------------------------------------------------------------
(* Properties of the command-line run.                                     *)

\* the calls a complete run of the mode makes before its email, in order
Plan(m) ==
    LET of(f) == << <<f, "fetch">>, <<f, "analyze">>, <<f, "generate">> >>
    IN  CASE m = "daily" -> of("run_daily_analysis")
          [] m \in {"weekly", "monthly"} ->
                of("run_daily_analysis") \o of(run_of(m))
          [] OTHER -> <<>>

Call(i) == <<steps[i].fn, steps[i].step>>

\* the emails handed to the mail transport, delivered or not
EmailCalls == {i \in DOMAIN steps : steps[i].step = "email"}

\* C24: in one run in any mode at most one email is sent, only with the
\* send-email flag set and after every step of the run (each fetch, analysis
\* and narrative, the daily ones first and with email disabled in weekly and
\* monthly mode) has succeeded; a failing step ends the run with a non-zero
\* status before any later step or email, a run that exits with status 0 has
\* made every step, and an invalid mode makes no step and exits with status 1.
C24_AtMostOneEmail ==
    /\ Cardinality(EmailCalls) <= 1
    /\ \A i \in DOMAIN steps :
          /\ steps[i].step = "email" =>
                /\ args.send_email
                /\ steps[i].fn = run_of(args.mode)
                /\ i = Len(Plan(args.mode)) + 1
                /\ \A j \in 1..(i - 1) : steps[j].ok
          /\ steps[i].step # "email" =>
                /\ i <= Len(Plan(args.mode))
                /\ Call(i) = Plan(args.mode)[i]
          /\ (steps[i].fn = "run_daily_analysis" /\ args.mode # "daily") =>
                ~steps[i].send_email
          /\ ~steps[i].ok =>
                /\ i = Len(steps)
                /\ at = "exit"
                /\ exit_code \notin {None, ExitSuccess}
    /\ exit_code = ExitSuccess =>
          /\ Len(steps) >= Len(Plan(args.mode))
          /\ \A i \in DOMAIN steps : steps[i].ok
          /\ args.send_email => EmailCalls # {}
    /\ args.mode \notin RunModes =>
          /\ steps = <<>>
          /\ at = "exit" => exit_code = ExitFailure

\* a weekly run with the flag set has made its six steps and sent its email
C24_Witness ==
    /\ args = [mode |-> "weekly", send_email |-> TRUE]
    /\ exit_code = ExitSuccess
    /\ Len(steps) = 7
    /\ steps[7].step = "email" /\ steps[7].ok

====
